---- MODULE Spec2Model ----
(***************************************************************************)
(* Model of the real-estate voice agent (src/agent.py, src/db.py): the     *)
(* RealEstateAgent session object, the create_inquiry tool with its        *)
(* background save task, the MongoDB gateway, caller-phone extraction,     *)
(* the timeout-bounded on_message turn and the termination entry point.    *)
(*                                                                         *)
(* All coroutines run on one asyncio event loop: a step of the model is    *)
(* the code a coroutine runs between two suspension points (await).  A     *)
(* synchronous call made inside a coroutine (the pymongo insert) belongs   *)
(* to the step that makes it, and the time it takes passes inside that     *)
(* step.  Time is kept by the timers that are running: a timer counts the  *)
(* seconds since it was armed.  time.time() is an input of the step that   *)
(* reads it.                                                               *)
(***************************************************************************)
EXTENDS Integers, Sequences, FiniteSets, TLC

(***************************************************************************)
(* Bounds of the model.                                                    *)
(***************************************************************************)
MaxCalls == 2         \* create_inquiry invocations in one session
MaxPhoneLen == 2      \* length, in chunks, of a phone argument
MaxTokenTime == 1     \* values of int(time.time()) explored: 0..MaxTokenTime
MaxDbBlock == 2       \* longest store round trip explored (seconds)
MaxTermRuns == 1      \* calls of the termination entry point

(***************************************************************************)
(* Python values.  None is <<"None">>; a str is <<"str", s>> with s the    *)
(* sequence of its chunks.  A chunk is an indivisible piece of text: " "   *)
(* is whitespace, every other chunk is free of whitespace, and no string   *)
(* of the model spells a word ("unknown", "sip_", ...) other than by that  *)
(* word's own chunk.                                                       *)
(***************************************************************************)
PyNone == <<"None">>
PyStr(s) == <<"str", s>>
IsNone(v) == v = PyNone
Chars(v) == v[2]
\* bool(v) for v a str or None
Truthy(v) == ~IsNone(v) /\ Chars(v) # <<>>

Unknown == PyStr(<<"unknown">>)
ExtractedFailed == PyStr(<<"extracted_failed">>)

IsSpace(c) == c = " "

RECURSIVE LStrip(_)
LStrip(s) == IF s # <<>> /\ IsSpace(Head(s)) THEN LStrip(Tail(s)) ELSE s

RECURSIVE RStrip(_)
RStrip(s) ==
  IF s # <<>> /\ IsSpace(s[Len(s)]) THEN RStrip(SubSeq(s, 1, Len(s) - 1)) ELSE s

\* str.strip()
Strip(s) == RStrip(LStrip(s))

RECURSIVE SeqsUpTo(_, _)
SeqsUpTo(A, n) ==
  IF n = 0 THEN {<<>>}
  ELSE LET shorter == SeqsUpTo(A, n - 1)
       IN shorter \cup {Append(s, a) : s \in shorter, a \in A}

(***************************************************************************)
(* The fallback token  f"call_{int(time.time())}".                         *)
(***************************************************************************)
CallTokenUnknown(t) == Unknown

CallToken(t) == PyStr(<<"call_", ToString(t)>>)

IsCallToken(v) == ~IsNone(v) /\ Len(Chars(v)) = 2 /\ Chars(v)[1] = "call_"

(***************************************************************************)
(* create_inquiry, agent.py 123-131: the phone the tool hands to the save  *)
(* task.                                                                   *)
(***************************************************************************)
ToolPhone(phone, caller) ==
  IF Truthy(caller) /\ (~Truthy(phone) \/ phone = Unknown) THEN caller ELSE phone

FinalPhone(phone, t) ==
  IF ~Truthy(phone) \/ phone = Unknown THEN CallToken(t) ELSE phone

(***************************************************************************)
(* RealEstateAgent._execute_tool, agent.py 218-221: the phone argument is  *)
(* overwritten with the caller phone or a fallback token.                  *)
(***************************************************************************)
ExecuteToolPhone(caller, t) ==
  IF ~Truthy(caller) \/ caller \in {Unknown, ExtractedFailed}
  THEN CallToken(t) ELSE caller

(***************************************************************************)
(* DatabaseDriver.create_inquiry, db.py 143-152: the phone key of the      *)
(* document.  The argument is always a str here (final_phone).             *)
(***************************************************************************)
DbPhone(phone, t) ==
  LET p1 == IF ~Truthy(phone) \/ phone = Unknown THEN CallToken(t) ELSE phone
      p2 == PyStr(Strip(Chars(p1)))
  IN IF ~Truthy(p2) THEN CallToken(t) ELSE p2

(***************************************************************************)
(* The values of an inquiry_data payload, next to None and str: int, bool, *)
(* datetime (its date and its time of day), dict (its items in insertion   *)
(* order, each <<key, value>>), list, tuple, an object with model_dump(),  *)
(* an object with dict() only (each with the value the method returns),    *)
(* and an object of any other class (with the text str() gives for it).    *)
(***************************************************************************)
PyInt(n) == <<"int", n>>
PyBool(b) == <<"bool", b>>
PyDatetime(date, time) == <<"datetime", date, time>>
PyDict(items) == <<"dict", items>>
PyList(elems) == <<"list", elems>>
PyTuple(elems) == <<"tuple", elems>>
PyModel(dumped) == <<"model", dumped>>
PyLegacyModel(dumped) == <<"legacy", dumped>>
PyObject(text) == <<"object", text>>

Kind(v) == v[1]

\* bool(v)
IsTruthy(v) ==
  CASE Kind(v) = "None" -> FALSE
    [] Kind(v) = "str" -> Chars(v) # <<>>
    [] Kind(v) = "int" -> v[2] # 0
    [] Kind(v) = "bool" -> v[2]
    [] Kind(v) \in {"dict", "list", "tuple"} -> v[2] # <<>>
    [] OTHER -> TRUE

\* str(v), for the values the sanitizer hands to it
Str(v) ==
  CASE Kind(v) = "None" -> PyStr(<<"None">>)
    [] Kind(v) = "str" -> v
    [] Kind(v) = "int" -> PyStr(<<ToString(v[2])>>)
    [] Kind(v) = "bool" -> PyStr(<<IF v[2] THEN "True" ELSE "False">>)
    [] Kind(v) = "datetime" -> PyStr(<<v[2], " ", v[3]>>)
    [] Kind(v) = "object" -> PyStr(<<v[2]>>)

\* datetime.isoformat()
Isoformat(v) == PyStr(<<v[2], "T", v[3]>>)

\* d[k] = v on the items of a dict whose keys are strings
DictSet(items, k, v) ==
  IF \E i \in 1..Len(items) : items[i][1] = k
  THEN [i \in 1..Len(items) |-> IF items[i][1] = k THEN <<k, v>> ELSE items[i]]
  ELSE Append(items, <<k, v>>)

\* db.py 93-113 with the containers returned as they are
SanitizeValueShallow(value) ==
  CASE Kind(value) \in {"None", "str", "int", "bool"} -> value
    [] Kind(value) = "datetime" -> Isoformat(value)
    [] Kind(value) \in {"dict", "list", "tuple"} -> value
    [] Kind(value) \in {"model", "legacy"} -> value[2]
    [] OTHER -> Str(value)

(***************************************************************************)
(* DatabaseDriver._sanitize_value, db.py 93-113.  SanitizeItems is the     *)
(* dict comprehension of db.py 102, built item by item.                    *)
(***************************************************************************)
RECURSIVE SanitizeValue(_)
RECURSIVE SanitizeItems(_, _)
SanitizeValue(value) ==
  CASE Kind(value) \in {"None", "str", "int", "bool"} -> value
    [] Kind(value) = "datetime" -> Isoformat(value)
    [] Kind(value) = "dict" -> PyDict(SanitizeItems(value[2], <<>>))
    [] Kind(value) \in {"list", "tuple"} ->
         PyList([i \in 1..Len(value[2]) |-> SanitizeValue(value[2][i])])
    [] Kind(value) \in {"model", "legacy"} -> SanitizeValue(value[2])
    [] OTHER -> Str(value)

SanitizeItems(items, done) ==
  IF items = <<>> THEN done
  ELSE SanitizeItems(Tail(items),
                     DictSet(done, Str(Head(items)[1]), SanitizeValue(Head(items)[2])))

\* db.py 123-124: the key of a top-level entry
TopKey(key) == IF IsTruthy(key) THEN Str(key) ELSE PyStr(<<"unknown_key">>)

RECURSIVE SanitizeTopItems(_, _)
SanitizeTopItems(items, done) ==
  IF items = <<>> THEN done
  ELSE SanitizeTopItems(Tail(items),
                        DictSet(done, TopKey(Head(items)[1]),
                                SanitizeValue(Head(items)[2])))

\* DatabaseDriver._sanitize_inquiry_data, db.py 115-131, as db.py 158 calls
\* it, for a payload that is None or a dict
SanitizeInquiryData(inquiry_data) ==
  IF ~IsTruthy(inquiry_data) THEN PyDict(<<>>)
  ELSE PyDict(SanitizeTopItems(inquiry_data[2], <<>>))

\* the value is a sequence of key/value pairs, which dict() accepts
IsPairs(v) ==
  /\ Kind(v) \in {"list", "tuple"}
  /\ \A i \in 1..Len(v[2]) :
       Kind(v[2][i]) \in {"list", "tuple"} /\ Len(v[2][i][2]) = 2

(***************************************************************************)
(* create_inquiry, agent.py 132-139 (and _execute_tool, agent.py 224-233): *)
(* the payload made a plain dict.  <<"ok", d>>, or <<"raise">> when dict() *)
(* cannot convert the value.                                               *)
(***************************************************************************)
PlainDict(inquiry_data) ==
  CASE ~IsTruthy(inquiry_data) -> <<"ok", inquiry_data>>
    [] IsTruthy(inquiry_data) /\ Kind(inquiry_data) = "dict" -> <<"ok", inquiry_data>>
    [] Kind(inquiry_data) \in {"model", "legacy"} -> <<"ok", inquiry_data[2]>>
    [] IsTruthy(inquiry_data) /\ IsPairs(inquiry_data) ->
         <<"ok", PyDict([i \in 1..Len(inquiry_data[2]) |->
                           <<inquiry_data[2][i][2][1], inquiry_data[2][i][2][2]>>])>>
    [] OTHER -> <<"raise">>

\* db.py 176: the caller phone counts as extracted from the call
CallerPhoneUsable(caller) ==
  Truthy(caller) /\ caller # Unknown /\ caller # ExtractedFailed

\* db.py 161-169, 190 without the caller phone branch of 176-178
InquiryDocProvidedOnly(phone, caller, data, t, id) ==
  [ phone |-> DbPhone(phone, t),
    inquiry_data |-> SanitizeInquiryData(data),
    status |-> "new",
    source |-> "phone_call",
    phone_source |-> "provided_by_customer",
    caller_phone |-> PyNone,
    id |-> id ]

\* db.py 161-178, 190: the document inserted, with the identifier the store assigns
InquiryDoc(phone, caller, data, t, id) ==
  [ phone |-> DbPhone(phone, t),
    inquiry_data |-> SanitizeInquiryData(data),
    status |-> "new",
    source |-> "phone_call",
    phone_source |-> IF CallerPhoneUsable(caller) THEN "extracted_from_call"
                     ELSE "provided_by_customer",
    caller_phone |-> IF CallerPhoneUsable(caller) THEN PyStr(Strip(Chars(caller)))
                     ELSE PyNone,
    id |-> id ]

(***************************************************************************)
(* Participants of the room, as extract_phone_number reads them.  pid is   *)
(* the identity (a sequence of chunks), sip_phone the "sip.phoneNumber"    *)
(* attribute (PyNone when absent), metadata of kind "none" (falsy), "str"  *)
(* (a plain string, on which .get raises) or "map" (a mapping with the     *)
(* fields phoneNumber and from).                                           *)
(***************************************************************************)
Participant(pid, sip_phone, metadata) ==
  [pid |-> pid, sip_phone |-> sip_phone, metadata |-> metadata]

NoMetadata == [kind |-> "none", phoneNumber |-> PyNone, from |-> PyNone]
StrMetadata == [kind |-> "str", phoneNumber |-> PyNone, from |-> PyNone]
MapMetadata(phoneNumber, from) ==
  [kind |-> "map", phoneNumber |-> phoneNumber, from |-> from]

\* pid.startswith(prefix), prefix one chunk
StartsWith(s, chunk) == s # <<>> /\ Head(s) = chunk

\* pid.replace("sip_", "")
RECURSIVE RemoveChunk(_, _)
RemoveChunk(s, chunk) ==
  IF s = <<>> THEN <<>>
  ELSE IF Head(s) = chunk THEN RemoveChunk(Tail(s), chunk)
  ELSE <<Head(s)>> \o RemoveChunk(Tail(s), chunk)

\* x or y
PyOr(x, y) == IF Truthy(x) THEN x ELSE y

(***************************************************************************)
(* One pass of extract_phone_number over room.remote_participants          *)
(* (agent.py 512-527, repeated at 534-549): <<"found", phone>>,            *)
(* <<"none">> or <<"raise">>.                                              *)
(***************************************************************************)
RECURSIVE LookupPhone(_)
LookupPhone(room) ==
  IF room = <<>> THEN <<"none">>
  ELSE LET p == Head(room)
           embedded == RemoveChunk(p.pid, "sip_")
       IN IF StartsWith(p.pid, "sip_") /\ StartsWith(embedded, "+")
          THEN <<"found", PyStr(embedded)>>
          ELSE IF Truthy(p.sip_phone)
          THEN <<"found", p.sip_phone>>
          ELSE IF p.metadata.kind = "none"
          THEN LookupPhone(Tail(room))
          ELSE IF p.metadata.kind = "str"
          THEN <<"raise">>
          ELSE IF Truthy(PyOr(p.metadata.phoneNumber, p.metadata.from))
          THEN <<"found", PyOr(p.metadata.phoneNumber, p.metadata.from)>>
          ELSE LookupPhone(Tail(room))

(***************************************************************************)
(* _get_smart_fallback_response, agent.py 257-267.  The text of an         *)
(* utterance is a sequence of chunks; x in msg holds when x is one of the  *)
(* chunks, so "hi" is in <<"t", "hi", "s">>.  Lower is str.lower() on a    *)
(* chunk.                                                                  *)
(***************************************************************************)
Lower(c) ==
  CASE c = "Buy" -> "buy"
    [] c = "VENDRE" -> "vendre"
    [] c = "Bonjour" -> "bonjour"
    [] OTHER -> c

LowerStr(s) == [i \in 1..Len(s) |-> Lower(s[i])]

\* any(x in msg for x in words)
AnyIn(s, words) == \E i \in 1..Len(s) : s[i] \in words

BuyWords == {"buy", "acheter", "purchase", "property", "bien", "appartement", "maison"}
SellWords == {"sell", "vendre", "sale"}
EstimateWords == {"estimate", "estimation", "value", "prix"}
GreetingWords == {"hello", "hi", "hey", "bonjour"}

BuyReply == "I can help you find a property!"
SellReply == "I can help you sell your property!"
EstimateReply == "I can help you estimate your property!"
GreetingReply == "Hello! Welcome to Immo Vallee."
GenericReply == "I'm here to help you with your real estate needs."

\* agent.py 258-267 without the lower() of 258
GetSmartFallbackResponseCaseSensitive(msg) ==
  IF AnyIn(msg, BuyWords) THEN BuyReply
  ELSE IF AnyIn(msg, SellWords) THEN SellReply
  ELSE IF AnyIn(msg, EstimateWords) THEN EstimateReply
  ELSE IF AnyIn(msg, GreetingWords) THEN GreetingReply
  ELSE GenericReply

GetSmartFallbackResponse(msg) ==
  LET m == LowerStr(msg)
  IN IF AnyIn(m, BuyWords) THEN BuyReply
     ELSE IF AnyIn(m, SellWords) THEN SellReply
     ELSE IF AnyIn(m, EstimateWords) THEN EstimateReply
     ELSE IF AnyIn(m, GreetingWords) THEN GreetingReply
     ELSE GenericReply

\* agent.py 252, 255: the selector applied to message.content or ""
FallbackFor(content) == GetSmartFallbackResponse(Chars(PyOr(content, PyStr(<<>>))))

(***************************************************************************)
(* _terminate_twilio_call, agent.py 422-447.  account_sid and auth_token   *)
(* are what os.getenv returns.  The function has no return statement with  *)
(* a value: whatever the credentials and the HTTP status, the caller gets  *)
(* None.  posted tells whether session.post was called.                    *)
(***************************************************************************)
NotCalled ==
  [account_sid |-> PyNone, auth_token |-> PyNone, posted |-> FALSE,
   http |-> "not_called", result |-> PyNone]

TerminateTwilioCall(account_sid, auth_token, http) ==
  IF ~Truthy(account_sid) \/ ~Truthy(auth_token)
  THEN [account_sid |-> account_sid, auth_token |-> auth_token, posted |-> FALSE,
        http |-> "no_request", result |-> PyNone]
  ELSE [account_sid |-> account_sid, auth_token |-> auth_token, posted |-> TRUE,
        http |-> http, result |-> PyNone]

\* os.getenv("TWILIO_ACCOUNT_SID"), os.getenv("TWILIO_AUTH_TOKEN")
Credentials == {PyNone, PyStr(<<>>), PyStr(<<"secret">>)}

\* what the POST of agent.py 436-445 comes to
HttpOutcomes == {"200", "404", "raises", "hangs"}

(***************************************************************************)
(* job_context.room.remote_participants as the teardown reads it: pid and  *)
(* the "sip.twilio.callSid" attribute (PyNone when absent).                *)
(***************************************************************************)
Leg(pid, call_sid) == [pid |-> pid, call_sid |-> call_sid]

\* agent.py 399-403 without the test of the pid at agent.py 400
TwilioLegsAnyParticipant(room) ==
  {i \in 1..Len(room) : Truthy(room[i].call_sid)}

\* agent.py 399-403: the participants whose call the teardown ends remotely
TwilioLegs(room) ==
  {i \in 1..Len(room) : StartsWith(room[i].pid, "sip_") /\ Truthy(room[i].call_sid)}

Upto(n) == [i \in 1..n |-> i]

\* the members of S among 1..n in the order the for loop meets them
InOrder(S, n) == SelectSeq(Upto(n), LAMBDA i : i \in S)

\* agent.py 398-403: the participants _terminate_twilio_call is awaited for,
\* in order; a POST that never returns leaves the loop at its first call
TwilioCalls(room, account_sid, auth_token, http) ==
  LET legs == InOrder(TwilioLegs(room), Len(room))
  IN IF /\ legs # <<>>
        /\ TerminateTwilioCall(account_sid, auth_token, http).posted
        /\ http = "hangs"
     THEN <<Head(legs)>>
     ELSE legs

\* agent.py 396-407: _terminate_twilio_call once for each such participant
TwilioAfter(tw, room, account_sid, auth_token, http) ==
  IF TwilioLegs(room) = {} THEN tw
  ELSE LET c == TerminateTwilioCall(account_sid, auth_token, http)
       IN [requests |-> tw.requests
                          + (IF c.posted
                             THEN Len(TwilioCalls(room, account_sid, auth_token, http))
                             ELSE 0),
           last |-> c]

(***************************************************************************)
(* What one strategy calls.  bad is the set of participants (positions in  *)
(* the room) for which the call made raises; exposed is the set of         *)
(* primitives hasattr finds on the session and raising the set of those    *)
(* that raise when awaited.                                                *)
(***************************************************************************)
\* agent.py 325
ShutdownOrder == <<"disconnect", "stop", "end", "close", "terminate", "shutdown">>

\* agent.py 325-331 without the break
SessionShutdownNoBreak(exposed, raising) ==
  SelectSeq(ShutdownOrder, LAMBDA m : m \in exposed)

RECURSIVE SessionShutdownFrom(_, _, _)
SessionShutdownFrom(i, exposed, raising) ==
  IF i > Len(ShutdownOrder) THEN <<>>
  ELSE IF ShutdownOrder[i] \notin exposed
  THEN SessionShutdownFrom(i + 1, exposed, raising)
  ELSE IF ShutdownOrder[i] \in raising
  THEN <<ShutdownOrder[i]>> \o SessionShutdownFrom(i + 1, exposed, raising)
  ELSE <<ShutdownOrder[i]>>

\* agent.py 325-331: the primitives awaited, in order
SessionShutdown(exposed, raising) == SessionShutdownFrom(1, exposed, raising)

\* agent.py 308-313: each disconnect() has a try of its own
DisconnectEach(room, bad) == Upto(Len(room))

\* agent.py 363-367, 372-376: the try encloses the for loop, so the first
\* call that raises is the last call made
ByIdCalls(room, bad) ==
  LET hits == bad \cap (1..Len(room))
  IN IF hits = {} THEN Upto(Len(room))
     ELSE Upto(CHOOSE i \in hits : \A j \in hits : i <= j)

NoFaults == [bad |-> {}, exposed |-> {}, raising |-> {}]

NoSweep == [k |-> 0, room |-> <<>>, exposed |-> {}, raising |-> {}, called |-> <<>>]

\* the calls strategy k makes
StrategyCalls(k, room, faults, account_sid, auth_token, http) ==
  CASE k = 1 ->
         [NoSweep EXCEPT !.k = k, !.room = room,
                         !.called = DisconnectEach(room, faults.bad)]
    [] k = 3 ->
         [NoSweep EXCEPT !.k = k, !.exposed = faults.exposed,
                         !.raising = faults.raising,
                         !.called = SessionShutdown(faults.exposed, faults.raising)]
    [] k \in {7, 8} ->
         [NoSweep EXCEPT !.k = k, !.room = room,
                         !.called = ByIdCalls(room, faults.bad)]
    [] k = 10 ->
         [NoSweep EXCEPT !.k = k, !.room = room,
                         !.called = TwilioCalls(room, account_sid, auth_token, http)]
    [] OTHER -> [NoSweep EXCEPT !.k = k]

\* How a strategy ends, given what its calls do: strategies 7 and 8 end in
\* their except clause when a call raises; strategy 3 counts as raised when
\* every primitive it awaited raised (agent.py 330-331 swallows each)
Consistent(k, outcome, room, faults) ==
  /\ (k \in {7, 8} /\ faults.bad \cap (1..Len(room)) # {}) => outcome = "raise"
  /\ (k = 3 /\ faults.exposed # {})
       => (outcome = "raise" <=> faults.exposed \subseteq faults.raising)

\* The rooms a session's teardown sees, and the rooms with a Twilio leg
SessionLegs == { <<Leg(<<"sip_", "+", "33">>, PyNone)>> }
TwilioRooms ==
  { <<>>,
    <<Leg(<<"sip_", "+", "33">>, PyStr(<<"CA1">>))>>,
    <<Leg(<<"user">>, PyStr(<<"CA2">>)), Leg(<<"sip_", "+", "33">>, PyNone)>> }

(***************************************************************************)
(* The objects created on first use, and DatabaseDriver.create_inquiry.    *)
(* A record d holds: driver, whether agent.py's db_driver is set; built,   *)
(* the DatabaseDriver objects constructed; indexes_created, the driver's   *)
(* flag; index_attempts, the runs of the index creation, and index_failed, *)
(* whether the last one raised; cache, whether the combined instruction    *)
(* text is set; combined, the times it was computed, and asked, the calls  *)
(* of its getter; and, for the calls of DatabaseDriver.create_inquiry made *)
(* with every store fault: n, their number; last, how the last one ended;  *)
(* id, the _id of the record it returned.  The save task keeps the result  *)
(* of its call in a local of its own (agent.py 158).                       *)
(***************************************************************************)
NoDb ==
  [driver |-> FALSE, built |-> 0, indexes_created |-> FALSE, index_attempts |-> 0,
   index_failed |-> FALSE, cache |-> FALSE, combined |-> 0, asked |-> 0,
   n |-> 0, last |-> "not_called", id |-> 0]

\* agent.py 48-55
GetCombinedInstructions(d) ==
  IF ~d.cache
  THEN [d EXCEPT !.asked = @ + 1, !.cache = TRUE, !.combined = @ + 1]
  ELSE [d EXCEPT !.asked = @ + 1]

\* agent.py 192-196: the first RealEstateAgent of the process
AgentBuilt == GetCombinedInstructions(NoDb)

\* agent.py 71-76; DatabaseDriver.__init__ (db.py 58-73) sets
\* _indexes_created to False
GetDbDriver(d) ==
  IF ~d.driver THEN [d EXCEPT !.driver = TRUE, !.built = @ + 1] ELSE d

\* db.py 76-91 with a failed creation left to be retried
EnsureIndexesRetries(d, fails) ==
  IF ~d.indexes_created
  THEN [d EXCEPT !.indexes_created = ~fails, !.index_attempts = @ + 1,
                 !.index_failed = fails]
  ELSE d

\* db.py 76-91: the flag is set whether the creation returned or raised
EnsureIndexes(d, fails) ==
  IF ~d.indexes_created
  THEN [d EXCEPT !.indexes_created = TRUE, !.index_attempts = @ + 1,
                 !.index_failed = fails]
  ELSE d

\* What goes wrong inside the try of db.py 141-199: nothing; insert_one
\* raises a PyMongoError, the record not inserted; insert_one raises another
\* exception while encoding the document (bson InvalidDocument,
\* OverflowError)
DriverFaults == {"none", "pymongo_error", "encode_error"}

\* db.py 134-199 with the except clause of get_inquiry_by_phone (db.py 211)
DriverCreateInquiryNarrowExcept(d, docs, phone, caller, data, t, index_fails, fault) ==
  LET e == EnsureIndexes(d, index_fails)
  IN CASE fault = "none" ->
            [db |-> e, result |-> "record", id |-> Len(docs) + 1,
             store |-> Append(docs, InquiryDoc(phone, caller, data, t, Len(docs) + 1))]
       [] fault = "pymongo_error" ->
            [db |-> e, result |-> "None", id |-> 0, store |-> docs]
       [] OTHER ->
            [db |-> e, result |-> "raised", id |-> 0, store |-> docs]

\* db.py 134-199: the state of the driver and the collection after the
\* call, what the call returned ("record" or "None") and the _id of the record
DriverCreateInquiry(d, docs, phone, caller, data, t, index_fails, fault) ==
  LET e == EnsureIndexes(d, index_fails)
  IN IF fault = "none"
     THEN [db |-> e, result |-> "record", id |-> Len(docs) + 1,
           store |-> Append(docs, InquiryDoc(phone, caller, data, t, Len(docs) + 1))]
     ELSE [db |-> e, result |-> "None", id |-> 0, store |-> docs]

\* agent.py 155-158 and db.py 139: the save task gets the driver and calls
\* it, and the call ensures the indexes first; with outcome "raised" the
\* exception came before the driver was reached
SaveDb(d, outcome) ==
  IF outcome = "raised" THEN d ELSE EnsureIndexes(GetDbDriver(d), FALSE)

(***************************************************************************)
(* State.                                                                  *)
(***************************************************************************)
VARIABLES
  inquiry_created,      \* RealEstateAgent.inquiry_created
  caller_phone,         \* RealEstateAgent.caller_phone
  termination_started,  \* RealEstateAgent.termination_started
  current_session,      \* RealEstateAgent.current_session: "None" or "session"
  calls,                \* the create_inquiry invocations of the session, in order
  store,                \* the inquiries collection: documents in insertion order
  turn,                 \* the on_message invocation: pc, seconds waited, last
                        \* result, content of the message
  extract,              \* position of the extract_phone_number task
  seen,                 \* room.remote_participants as its last pass read it
  start,                \* position of the on_start task
  term,                 \* the runs of _terminate_call_after_delay, in call order
  twilio,               \* the Twilio REST API as _terminate_twilio_call used it
  sweep,                \* the calls the last strategy executed made
  db                    \* the lazily initialised objects and the last call of
                        \* DatabaseDriver.create_inquiry

vars == <<inquiry_created, caller_phone, termination_started, current_session,
          calls, store, turn, extract, seen, start, term, twilio, sweep,
          db>>

DuplicateMessage == "one inquiry per call"
SuccessAck == "saved successfully"
ErrorMessage == "error saving your inquiry"
ToolRaised == "_execute_tool raised"
EndingNotice == "call is ending"
BackendReply == "backend reply"

\* agent.py 246: timeout of wait_for, in seconds
TurnDeadline == 3

\* Values of int(time.time())
TokenTimes == 0..MaxTokenTime

\* The inputs of a session's invocations: phone argument, entry path, time
SessionPhones == {PyNone}
SessionVias == {"tool"}
SessionTimes == {0}

\* The inquiry_data argument of a session's invocations: an empty mapping
SessionData == {PyDict(<<>>)}

\* message.content of a session's utterances
SessionMsgs == {PyStr(<<"Bonjour">>)}

\* The rooms a session's extraction passes see
SessionRooms ==
  { <<>>,
    <<Participant(<<"sip_", "+", "33">>, PyNone, NoMetadata)>> }

\* RealEstateAgent.__init__, agent.py 205-209.  The entrypoint goes on to
\* start the session (agent.py 559) and to schedule extract_phone_number and
\* on_start (agent.py 568, 571): each runs once, some time after this state.
Init ==
  /\ inquiry_created = FALSE
  /\ caller_phone = PyNone
  /\ termination_started = FALSE
  /\ current_session = "None"
  /\ calls = <<>>
  /\ store = <<>>
  /\ turn = [pc |-> "idle", waited |-> 0, out |-> "None", msg |-> PyNone]
  /\ extract = "scheduled"
  /\ seen = <<>>
  /\ start = "scheduled"
  /\ term = <<>>
  /\ twilio = [requests |-> 0, last |-> NotCalled]
  /\ sweep = NoSweep
  /\ db = AgentBuilt

(***************************************************************************)
(* create_inquiry, agent.py 118-180.  The body has no await: it runs as    *)
(* one step, and asyncio.create_task only schedules the save task.         *)
(* via = "execute_tool" is an invocation routed through _execute_tool,     *)
(* which rewrites the phone argument first; via = "tool" is the function   *)
(* tool called as registered (agent.py 198-203).  An invocation is kept    *)
(* as a record: its phone argument, the caller phone it read, the phone    *)
(* it handed to the save task, its return value and the position of its    *)
(* save task.                                                              *)
(***************************************************************************)
ToolArg(phone, via, t) ==
  IF via = "execute_tool" THEN ExecuteToolPhone(caller_phone, t) ELSE phone

\* agent.py 123-177 with the write done inline instead of in a task
CreateInquiryInline(phone, via, t, data) ==
  /\ calls' = Append(calls,
                 [ phone |-> phone, via |-> via, data |-> data, caller |-> caller_phone,
                   final_phone |-> FinalPhone(ToolPhone(ToolArg(phone, via, t), caller_phone), t),
                   result |-> SuccessAck, task |-> "stored", doc |-> Len(store) + 1 ])
  /\ store' = Append(store,
                 InquiryDoc(FinalPhone(ToolPhone(ToolArg(phone, via, t), caller_phone), t),
                            caller_phone, PlainDict(data)[2], t, Len(store) + 1))
  /\ db' = SaveDb(db, "stored")
  /\ inquiry_created' = TRUE
  /\ UNCHANGED <<caller_phone, termination_started, current_session,
                 turn, extract, seen, start, term, twilio, sweep>>

\* agent.py 123-177 with the flag set when the task is spawned
CreateInquiryFlagAtSpawn(phone, via, t, data) ==
  /\ calls' = Append(calls,
                 [ phone |-> phone, via |-> via, data |-> data, caller |-> caller_phone,
                   final_phone |-> FinalPhone(ToolPhone(ToolArg(phone, via, t), caller_phone), t),
                   result |-> SuccessAck, task |-> "pending", doc |-> 0 ])
  /\ inquiry_created' = TRUE
  /\ UNCHANGED <<caller_phone, termination_started, current_session, store,
                 turn, extract, seen, start, term, twilio, sweep, db>>

\* agent.py 123-177 with the phone handed to the save task written back to
\* the agent
CreateInquiryStoresCaller(phone, via, t, data) ==
  /\ calls' = Append(calls,
                 [ phone |-> phone, via |-> via, data |-> data, caller |-> caller_phone,
                   final_phone |-> FinalPhone(ToolPhone(ToolArg(phone, via, t), caller_phone), t),
                   result |-> SuccessAck, task |-> "pending", doc |-> 0 ])
  /\ caller_phone' = FinalPhone(ToolPhone(ToolArg(phone, via, t), caller_phone), t)
  /\ UNCHANGED <<inquiry_created, termination_started,
                 current_session, store, turn, extract, seen, start, term, twilio, sweep, db>>

\* agent.py 123-177
CreateInquirySpawn(phone, via, t, data) ==
  /\ calls' = Append(calls,
                 [ phone |-> phone, via |-> via, data |-> data, caller |-> caller_phone,
                   final_phone |-> FinalPhone(ToolPhone(ToolArg(phone, via, t), caller_phone), t),
                   result |-> SuccessAck, task |-> "pending", doc |-> 0 ])
  /\ UNCHANGED <<inquiry_created, caller_phone, termination_started,
                 current_session, store, turn, extract, seen, start, term, twilio, sweep, db>>

\* agent.py 120-121
CreateInquirySuppressed(phone, via, t, data) ==
  /\ calls' = Append(calls,
                 [ phone |-> phone, via |-> via, data |-> data, caller |-> caller_phone,
                   final_phone |-> PyNone,
                   result |-> DuplicateMessage, task |-> "no_task", doc |-> 0 ])
  /\ UNCHANGED <<inquiry_created, caller_phone, termination_started,
                 current_session, store, turn, extract, seen, start, term, twilio, sweep, db>>

\* agent.py 139, 178-180: dict() raised on the payload and the except clause
\* returns the error message; no save task is spawned.  Through _execute_tool
\* the conversion of agent.py 233 raises first, outside any try, and
\* create_inquiry is not reached.
CreateInquiryRejected(phone, via, t, data) ==
  /\ calls' = Append(calls,
                 [ phone |-> phone, via |-> via, data |-> data, caller |-> caller_phone,
                   final_phone |-> PyNone,
                   result |-> IF via = "execute_tool" THEN ToolRaised ELSE ErrorMessage,
                   task |-> "no_task", doc |-> 0 ])
  /\ UNCHANGED <<inquiry_created, caller_phone, termination_started,
                 current_session, store, turn, extract, seen, start, term, twilio, sweep, db>>

\* the guard of agent.py 120 left out
CreateInquiryNoGuard(phone, via, t, data) == CreateInquirySpawn(phone, via, t, data)

CreateInquiry(phone, via, t, data) ==
  IF via = "execute_tool" /\ PlainDict(data)[1] = "raise"
  THEN CreateInquiryRejected(phone, via, t, data)
  ELSE IF inquiry_created
  THEN CreateInquirySuppressed(phone, via, t, data)
  ELSE IF PlainDict(data)[1] = "raise"
  THEN CreateInquiryRejected(phone, via, t, data)
  ELSE CreateInquirySpawn(phone, via, t, data)

(***************************************************************************)
(* save_inquiry_async, agent.py 143-172, with DatabaseDriver.create_inquiry*)
(* (db.py 134-199) called synchronously inside it: the task runs as one    *)
(* step, and the store round trip of d seconds passes within that step:    *)
(* the event loop runs nothing else meanwhile, timer callbacks included.   *)
(* outcome: "stored" (insert_one returned), "returned_none" (insert_one    *)
(* raised and the driver returned None), "raised" (an exception reached    *)
(* the except clause of the task).  doc is the _id of the result.          *)
(***************************************************************************)
\* d seconds pass while the event loop is kept busy
Blocked(tn, d) ==
  IF tn.pc = "awaiting" THEN [tn EXCEPT !.waited = tn.waited + d] ELSE tn

\* agent.py 164-168 with the flag set whatever the result
SaveInquiryAlwaysFlag(i, outcome, d, t) ==
  /\ i \in 1..Len(calls)
  /\ calls[i].task = "pending"
  /\ turn' = Blocked(turn, d)
  /\ calls' = [calls EXCEPT ![i].task = outcome,
                            ![i].doc = IF outcome = "stored" THEN Len(store) + 1 ELSE 0]
  /\ IF outcome = "stored"
     THEN store' = Append(store,
                     InquiryDoc(calls[i].final_phone, caller_phone, PlainDict(calls[i].data)[2], t,
                                Len(store) + 1))
     ELSE UNCHANGED store
  /\ db' = SaveDb(db, outcome)
  /\ inquiry_created' = TRUE
  /\ UNCHANGED <<caller_phone, termination_started, current_session,
                 extract, seen, start, term, twilio, sweep>>

\* agent.py 169-172 with a failed save ending the session
SaveInquiryFailureEndsSession(i, outcome, d, t) ==
  /\ i \in 1..Len(calls)
  /\ calls[i].task = "pending"
  /\ turn' = Blocked(turn, d)
  /\ calls' = [calls EXCEPT ![i].task = outcome,
                            ![i].doc = IF outcome = "stored" THEN Len(store) + 1 ELSE 0]
  /\ IF outcome = "stored"
     THEN /\ store' = Append(store,
                        InquiryDoc(calls[i].final_phone, caller_phone, PlainDict(calls[i].data)[2], t,
                                   Len(store) + 1))
          /\ inquiry_created' = TRUE
          /\ UNCHANGED current_session
     ELSE /\ current_session' = "None"
          /\ UNCHANGED <<store, inquiry_created>>
  /\ db' = SaveDb(db, outcome)
  /\ UNCHANGED <<caller_phone, termination_started,
                 extract, seen, start, term, twilio, sweep>>

SaveInquiry(i, outcome, d, t) ==
  /\ i \in 1..Len(calls)
  /\ calls[i].task = "pending"
  /\ turn' = Blocked(turn, d)
  /\ calls' = [calls EXCEPT ![i].task = outcome,
                            ![i].doc = IF outcome = "stored" THEN Len(store) + 1 ELSE 0]
  /\ db' = SaveDb(db, outcome)
  /\ IF outcome = "stored"
     THEN /\ store' = Append(store,
                        InquiryDoc(calls[i].final_phone, caller_phone, PlainDict(calls[i].data)[2], t,
                                   Len(store) + 1))
          /\ inquiry_created' = TRUE
     ELSE UNCHANGED <<store, inquiry_created>>
  /\ UNCHANGED <<caller_phone, termination_started, current_session,
                 extract, seen, start, term, twilio, sweep>>

SaveOutcomes == {"stored", "returned_none", "raised"}

(***************************************************************************)
(* extract_phone_number, agent.py 506-556.  The first pass runs when the   *)
(* task starts; an unresolved first pass suspends in asyncio.sleep(0.3)    *)
(* and a second pass follows.  An exception in either pass leaves the      *)
(* local caller_phone as it was (agent.py 550).  room is what the pass     *)
(* sees of ctx.room.remote_participants.                                   *)
(***************************************************************************)
ExtractFirstPass(room) ==
  /\ extract = "scheduled"
  /\ seen' = room
  /\ LET r == LookupPhone(room)
     IN IF r[1] = "found" /\ Truthy(r[2])
        THEN /\ caller_phone' = r[2]
             /\ extract' = "done"
        ELSE IF r[1] = "raise"
        THEN /\ caller_phone' = ExtractedFailed
             /\ extract' = "done"
        ELSE /\ extract' = "sleeping"
             /\ UNCHANGED caller_phone
  /\ UNCHANGED <<inquiry_created, termination_started, current_session,
                 calls, store, turn, start, term, twilio, sweep, db>>

\* a second pass without the else branch of agent.py 555-556
ExtractSecondPassNoSentinel(room) ==
  /\ extract = "sleeping"
  /\ seen' = room
  /\ LET r == LookupPhone(room)
     IN caller_phone' = IF r[1] = "found" /\ Truthy(r[2]) THEN r[2]
                        ELSE caller_phone
  /\ extract' = "done"
  /\ UNCHANGED <<inquiry_created, termination_started, current_session,
                 calls, store, turn, start, term, twilio, sweep, db>>

ExtractSecondPass(room) ==
  /\ extract = "sleeping"
  /\ seen' = room
  /\ LET r == LookupPhone(room)
     IN caller_phone' = IF r[1] = "found" /\ Truthy(r[2]) THEN r[2]
                        ELSE ExtractedFailed
  /\ extract' = "done"
  /\ UNCHANGED <<inquiry_created, termination_started, current_session,
                 calls, store, turn, start, term, twilio, sweep, db>>

(***************************************************************************)
(* RealEstateAgent.on_start, agent.py 269-280: records the session; the    *)
(* greeting is handed to the session and not awaited.                      *)
(***************************************************************************)
OnStart ==
  /\ start = "scheduled"
  /\ start' = "done"
  /\ current_session' = "session"
  /\ UNCHANGED <<inquiry_created, caller_phone, termination_started,
                 calls, store, turn, extract, seen, term, twilio, sweep, db>>

(***************************************************************************)
(* RealEstateAgent.on_message, agent.py 238-255.  Turns are sequential.    *)
(* The invocation either returns the ending notice at once or suspends in  *)
(* wait_for; it resumes when the backend returns, when the backend raises  *)
(* or when the timer of wait_for, due TurnDeadline after the start, is run *)
(* by the event loop.  waited counts the seconds since the invocation.      *)
(***************************************************************************)
\* agent.py 241-248 without the check of agent.py 239-240
OnMessageBeginNoGuard(content) ==
  /\ turn.pc = "idle"
  /\ turn' = [pc |-> "awaiting", waited |-> 0, out |-> "None", msg |-> content]
  /\ UNCHANGED <<inquiry_created, caller_phone, termination_started,
                 current_session, calls, store, extract, seen, start, term, twilio, sweep, db>>

\* agent.py 239-246
OnMessageBegin(content) ==
  /\ turn.pc = "idle"
  /\ IF termination_started
     THEN turn' = [pc |-> "idle", waited |-> 0, out |-> EndingNotice, msg |-> content]
     ELSE turn' = [pc |-> "awaiting", waited |-> 0, out |-> "None", msg |-> content]
  /\ UNCHANGED <<inquiry_created, caller_phone, termination_started,
                 current_session, calls, store, extract, seen, start, term, twilio, sweep, db>>

TurnReturns(out) ==
  /\ turn' = [pc |-> "idle", waited |-> 0, out |-> out, msg |-> turn.msg]
  /\ UNCHANGED <<inquiry_created, caller_phone, termination_started,
                 current_session, calls, store, extract, seen, start, term, twilio, sweep, db>>

\* agent.py 244-248: the backend's result reaches wait_for before the event
\* loop has run the timer callback
BackendReplies ==
  /\ turn.pc = "awaiting"
  /\ TurnReturns(BackendReply)

\* agent.py 253-255
BackendRaises ==
  /\ turn.pc = "awaiting"
  /\ TurnReturns(FallbackFor(turn.msg))

\* the timer of wait_for(timeout=3.0) is due
TimerDue(waited) == waited >= TurnDeadline

\* agent.py 249-252
BackendTimesOut ==
  /\ turn.pc = "awaiting"
  /\ TimerDue(turn.waited)
  /\ TurnReturns(FallbackFor(turn.msg))

(***************************************************************************)
(* _terminate_call_after_delay, agent.py 285-420.  Every call of the entry *)
(* point is a run of its own; nothing in it looks at the other runs.  A    *)
(* run suspends in sleep(5.0), sets termination_started, and, when a       *)
(* session is recorded, attempts the farewell under wait_for(4.0), sleeps  *)
(* 6.0 unless the farewell failed, runs the strategies 1 to 11 in order,   *)
(* each inside its own try/except, and clears the session reference.       *)
(* A run is a record: pc; waited, the seconds since the timer it waits on  *)
(* was armed; tts, the ENABLE_TTS it read; step, the number of its last    *)
(* strategy attempted; raised, how many of them raised; hung, whether the  *)
(* last one never returned.                                                *)
(***************************************************************************)
\* agent.py 306-414: the strategies in the order of the function body
StrategyOrder ==
  <<"participant_disconnect",   \* 1: 306-315
    "room_close",               \* 2: 317-322
    "session_shutdown",         \* 3: 324-331
    "session_room_close",       \* 4: 333-338
    "agent_stop",               \* 5: 340-346
    "force_disconnect_sip",     \* 6: 348-360
    "disconnect_by_id",         \* 7: 362-369
    "remove_by_id",             \* 8: 371-378
    "transport_close",          \* 9: 380-393
    "remote_termination",       \* 10: 395-407
    "job_context_disconnect">>  \* 11: 409-414

GraceDelay == 5
FarewellTimeout == 4
FarewellPause == 6
TwilioStrategy == 10
LastStrategy == 11

NewRun ==
  [pc |-> "grace", waited |-> 0, tts |-> "1", step |-> 0, raised |-> 0, hung |-> FALSE]

TerminateBegin(max) ==
  /\ Len(term) < max
  /\ term' = Append(term, NewRun)
  /\ UNCHANGED <<inquiry_created, caller_phone, termination_started,
                 current_session, calls, store, turn, extract, seen, start, twilio, sweep, db>>

\* agent.py 290-302: the sleep is over; tts is os.getenv("ENABLE_TTS", "1")
TerminateAfterGrace(r, tts) ==
  /\ term[r].pc = "grace"
  /\ termination_started' = TRUE
  /\ term' = [term EXCEPT ![r].pc = IF current_session = "None" THEN "done"
                                    ELSE IF tts # "0" THEN "farewell"
                                    ELSE "sleep",
                          ![r].waited = 0,
                          ![r].tts = tts]
  /\ UNCHANGED <<inquiry_created, caller_phone, current_session,
                 calls, store, turn, extract, seen, start, twilio, sweep, db>>

\* agent.py 296-302: generate_reply returned in time
FarewellReturns(r) ==
  /\ term[r].pc = "farewell"
  /\ term' = [term EXCEPT ![r].pc = "sleep", ![r].waited = 0]
  /\ UNCHANGED <<inquiry_created, caller_phone, termination_started,
                 current_session, calls, store, turn, extract, seen, start, twilio, sweep, db>>

\* agent.py 303-307: generate_reply raised, or the timer of wait_for ran:
\* the sleep is skipped and strategy 1 is next
FarewellFails(r) ==
  /\ term[r].pc = "farewell"
  /\ term' = [term EXCEPT ![r].pc = "teardown", ![r].waited = 0]
  /\ UNCHANGED <<inquiry_created, caller_phone, termination_started,
                 current_session, calls, store, turn, extract, seen, start, twilio, sweep, db>>

\* agent.py 302, 307: sleep(6.0) is over and strategy 1 is next
FarewellPauseEnds(r) ==
  /\ term[r].pc = "sleep"
  /\ term' = [term EXCEPT ![r].pc = "teardown", ![r].waited = 0]
  /\ UNCHANGED <<inquiry_created, caller_phone, termination_started,
                 current_session, calls, store, turn, extract, seen, start, twilio, sweep, db>>

\* agent.py 306-414 with an exception of a strategy reaching agent.py 419
AfterStrategyRaiseEscapes(run, outcome) ==
  [run EXCEPT !.step = run.step + 1,
              !.raised = IF outcome = "raise" THEN run.raised + 1 ELSE run.raised,
              !.hung = outcome = "hangs",
              !.pc = IF outcome = "raise" \/ (outcome = "ok" /\ run.step + 1 = LastStrategy)
                     THEN "done" ELSE "teardown"]

\* agent.py 306-414 with a strategy that raises taking the next one with it
AfterStrategySkips(run, outcome) ==
  LET n == IF outcome = "raise" /\ run.step + 1 < LastStrategy
           THEN run.step + 2 ELSE run.step + 1
  IN [run EXCEPT !.step = n,
                 !.raised = IF outcome = "raise" THEN run.raised + 1 ELSE run.raised,
                 !.hung = outcome = "hangs",
                 !.pc = IF outcome # "hangs" /\ n = LastStrategy
                        THEN "done" ELSE "teardown"]

\* The run after its next strategy ended with outcome "ok" or "raise", or
\* did not end ("hangs"); after strategy 11, agent.py 416-418
AfterStrategy(run, outcome) ==
  [run EXCEPT !.step = run.step + 1,
              !.raised = IF outcome = "raise" THEN run.raised + 1 ELSE run.raised,
              !.hung = outcome = "hangs",
              !.pc = IF outcome # "hangs" /\ run.step + 1 = LastStrategy
                     THEN "done" ELSE "teardown"]

\* agent.py 306-418: the next strategy of run r, from its first await to its
\* except clause.  Strategy 10 calls _terminate_twilio_call, whose POST gives
\* the strategy its outcome when it is issued for some participant.
RunStrategyWith(r, outcome, room, account_sid, auth_token, http, faults) ==
  /\ term[r].pc = "teardown"
  /\ ~term[r].hung
  /\ LET k == term[r].step + 1
         posts == /\ k = TwilioStrategy
                  /\ TwilioLegs(room) # {}
                  /\ TerminateTwilioCall(account_sid, auth_token, http).posted
     IN /\ posts => outcome = (IF http = "hangs" THEN "hangs" ELSE "ok")
        /\ Consistent(k, outcome, room, faults)
        /\ term' = [term EXCEPT ![r] = AfterStrategy(term[r], outcome)]
        /\ sweep' = StrategyCalls(k, room, faults, account_sid, auth_token, http)
        /\ twilio' = IF k = TwilioStrategy
                     THEN TwilioAfter(twilio, room, account_sid, auth_token, http)
                     ELSE twilio
        /\ current_session' = IF term'[r].pc = "done" THEN "None"
                              ELSE current_session
  /\ UNCHANGED <<inquiry_created, caller_phone, termination_started,
                 calls, store, turn, extract, seen, start, db>>

\* the next strategy of run r with no call known to raise
RunStrategy(r, outcome, room, account_sid, auth_token, http) ==
  RunStrategyWith(r, outcome, room, account_sid, auth_token, http, NoFaults)

\* agent.py 294-304 in one step: the farewell returns and the pause ends,
\* or the farewell raises or times out
TerminateFarewell(r) ==
  /\ term[r].pc = "farewell"
  /\ term' = [term EXCEPT ![r].pc = "teardown", ![r].waited = 0]
  /\ UNCHANGED <<inquiry_created, caller_phone, termination_started,
                 current_session, calls, store, turn, extract, seen, start, twilio, sweep, db>>

\* agent.py 306-418 in one step: every strategy of run r returns
TerminateTeardown(r, room, account_sid, auth_token, http) ==
  /\ term[r].pc = "teardown"
  /\ term[r].step = 0
  /\ http # "hangs"
  /\ term' = [term EXCEPT ![r].pc = "done", ![r].step = LastStrategy]
  /\ twilio' = TwilioAfter(twilio, room, account_sid, auth_token, http)
  /\ sweep' = StrategyCalls(LastStrategy, room, NoFaults, account_sid, auth_token, http)
  /\ current_session' = "None"
  /\ UNCHANGED <<inquiry_created, caller_phone, termination_started,
                 calls, store, turn, extract, seen, start, db>>

(***************************************************************************)
(* Time passes while the event loop is idle.  The loop runs a due timer    *)
(* callback before it sleeps again, so the clock does not pass a due       *)
(* wait_for timer while the loop is free.                                  *)
(***************************************************************************)
Tick ==
  /\ turn.pc = "awaiting"
  /\ ~TimerDue(turn.waited)
  /\ turn' = [turn EXCEPT !.waited = turn.waited + 1]
  /\ UNCHANGED <<inquiry_created, caller_phone, termination_started,
                 current_session, calls, store, extract, seen, start, term, twilio, sweep, db>>

(***************************************************************************)
(* The session: every handler, with its inputs.                            *)
(***************************************************************************)
InvokeTool(phones, vias, times, datas, max) ==
  /\ Len(calls) < max
  /\ \E phone \in phones, via \in vias, t \in times, data \in datas :
       CreateInquiry(phone, via, t, data)

SaveTask(times) ==
  \E i \in 1..Len(calls), outcome \in SaveOutcomes, d \in 0..MaxDbBlock, t \in times :
    SaveInquiry(i, outcome, d, t)

ExtractPhone(rooms) ==
  \E room \in rooms : ExtractFirstPass(room) \/ ExtractSecondPass(room)

OnMessage(msgs) ==
  \/ \E content \in msgs : OnMessageBegin(content)
  \/ BackendReplies
  \/ BackendRaises
  \/ BackendTimesOut

\* The runs of the session specification: their sleeps take any time, and
\* the farewell and the strategies of a run are each taken in one step
Terminate(max, rooms) ==
  \/ TerminateBegin(max)
  \/ \E r \in 1..Len(term) :
       \/ TerminateAfterGrace(r, "1")
       \/ TerminateFarewell(r)
       \/ \E room \in rooms : TerminateTeardown(r, room, PyNone, PyNone, "200")

Next ==
  \/ InvokeTool(SessionPhones, SessionVias, SessionTimes, SessionData, MaxCalls)
  \/ SaveTask(SessionTimes)
  \/ ExtractPhone(SessionRooms)
  \/ OnStart
  \/ OnMessage(SessionMsgs)
  \/ Terminate(MaxTermRuns, SessionLegs)
  \/ Tick

Spec == Init /\ [][Next]_vars

(***************************************************************************)
(* The phone pipeline on its own: the first invocation of a session, over  *)
(* every phone argument of at most MaxPhoneLen chunks, both entry paths,   *)
(* and every caller phone the extraction can leave.                        *)
(***************************************************************************)
PhoneChunks == {" ", "unknown", "7"}

AllPhones == {PyNone} \cup {PyStr(s) : s \in SeqsUpTo(PhoneChunks, MaxPhoneLen)}

PhoneRooms ==
  { <<>>,
    <<Participant(<<"sip_", "+", "33">>, PyNone, NoMetadata)>>,
    <<Participant(<<"user">>, Unknown, NoMetadata)>>,
    <<Participant(<<"user">>, PyNone, StrMetadata)>>,
    <<Participant(<<"user">>, PyNone, MapMetadata(PyNone, PyStr(<<" ", "44">>)))>> }

PhoneNext ==
  \/ /\ calls = <<>>
     /\ InvokeTool(AllPhones, {"tool", "execute_tool"}, TokenTimes, SessionData, MaxCalls)
  \/ SaveTask(TokenTimes)
  \/ ExtractPhone(PhoneRooms)

PhoneSpec == Init /\ [][PhoneNext]_vars

(***************************************************************************)
(* The reply pipeline on its own: utterances of every kind the selector    *)
(* tells apart, one create_inquiry invocation whose save can keep the      *)
(* event loop busy, and the termination runs.                              *)
(***************************************************************************)
TurnMsgs ==
  { PyNone, PyStr(<<>>),
    PyStr(<<"Buy", " ", "maison">>),
    PyStr(<<"VENDRE", " ", "prix">>),
    PyStr(<<"vendre", " ", "maison">>),
    PyStr(<<"estimation">>),
    PyStr(<<"Bonjour">>),
    PyStr(<<"t", "hi", "s">>),
    PyStr(<<"merci">>) }

TurnNext ==
  \/ /\ calls = <<>>
     /\ InvokeTool(SessionPhones, SessionVias, SessionTimes, SessionData, MaxCalls)
  \/ SaveTask(SessionTimes)
  \/ OnMessage(TurnMsgs)
  \/ Terminate(MaxTermRuns, SessionLegs)
  \/ Tick

TurnSpec == Init /\ [][TurnNext]_vars

(***************************************************************************)
(* The termination runs with their timers.  Overlapping calls of the entry *)
(* point need one run more than the session specification explores.  A     *)
(* run's sleep(5.0), wait_for(4.0) and sleep(6.0) end when the event loop  *)
(* runs their timer; the clock does not pass a due timer while the loop is *)
(* free.                                                                   *)
(***************************************************************************)
MaxOverlap == MaxTermRuns + 1

Armed(run) == run.pc \in {"grace", "farewell", "sleep"}

\* agent.py 290 with no sleep before the teardown
TimerLimitNoGrace(run) ==
  CASE run.pc = "grace" -> 0
    [] run.pc = "farewell" -> FarewellTimeout
    [] OTHER -> FarewellPause

TimerLimit(run) ==
  CASE run.pc = "grace" -> GraceDelay
    [] run.pc = "farewell" -> FarewellTimeout
    [] OTHER -> FarewellPause

TimerRan(run) == Armed(run) /\ run.waited >= TimerLimit(run)

TermTick ==
  /\ turn.pc = "awaiting" \/ \E r \in 1..Len(term) : Armed(term[r])
  /\ turn.pc = "awaiting" => ~TimerDue(turn.waited)
  /\ \A r \in 1..Len(term) : ~TimerRan(term[r])
  /\ turn' = IF turn.pc = "awaiting" THEN [turn EXCEPT !.waited = turn.waited + 1]
             ELSE turn
  /\ term' = [r \in 1..Len(term) |->
                IF Armed(term[r]) THEN [term[r] EXCEPT !.waited = term[r].waited + 1]
                ELSE term[r]]
  /\ UNCHANGED <<inquiry_created, caller_phone, termination_started,
                 current_session, calls, store, extract, seen, start, twilio, sweep, db>>

TermRooms == { <<Leg(<<"sip_", "+", "33">>, PyStr(<<"CA1">>))>> }
Secret == PyStr(<<"secret">>)

TermNext ==
  \/ TerminateBegin(MaxOverlap)
  \/ \E r \in 1..Len(term), tts \in {"1", "0"} :
       TimerRan(term[r]) /\ TerminateAfterGrace(r, tts)
  \/ \E r \in 1..Len(term) : FarewellReturns(r)
  \/ \E r \in 1..Len(term) : FarewellFails(r)
  \/ \E r \in 1..Len(term) : TimerRan(term[r]) /\ FarewellPauseEnds(r)
  \/ \E r \in 1..Len(term), room \in TermRooms :
       RunStrategy(r, "ok", room, Secret, Secret, "200")
  \/ OnStart
  \/ OnMessage(SessionMsgs)
  \/ TermTick

TermSpec == Init /\ [][TermNext]_vars

(***************************************************************************)
(* The termination runs with strategies that return, raise or never        *)
(* return.                                                                 *)
(***************************************************************************)
StrategyOutcomes == {"ok", "raise", "hangs"}

\* Only strategy 10 reads the room's call SIDs and the credentials
Teardown(outcomes, rooms, credentials, https) ==
  \E r \in 1..Len(term), outcome \in outcomes :
    IF term[r].step + 1 = TwilioStrategy
    THEN \E room \in rooms, account_sid \in credentials,
            auth_token \in credentials, http \in https :
           RunStrategy(r, outcome, room, account_sid, auth_token, http)
    ELSE RunStrategy(r, outcome, <<>>, PyNone, PyNone, "200")

FailNext ==
  \/ TerminateBegin(MaxTermRuns)
  \/ \E r \in 1..Len(term) : TerminateAfterGrace(r, "1")
  \/ \E r \in 1..Len(term) : FarewellReturns(r)
  \/ \E r \in 1..Len(term) : FarewellFails(r)
  \/ \E r \in 1..Len(term) : FarewellPauseEnds(r)
  \/ Teardown(StrategyOutcomes, {<<>>} \cup TermRooms, {Secret}, HttpOutcomes)
  \/ OnStart

FailSpec == Init /\ [][FailNext]_vars

\* The event loop runs every coroutine that can resume
FairFailSpec == FailSpec /\ WF_vars(FailNext)

(***************************************************************************)
(* Re-entry: the entry point is called again only when every earlier run   *)
(* has returned, so every run but the first is a re-entry.  The strategies *)
(* return; strategy 10 sees every room, credential pair and HTTP outcome.  *)
(***************************************************************************)
ReentryNext ==
  \/ /\ \A q \in 1..Len(term) : term[q].pc = "done"
     /\ TerminateBegin(MaxOverlap)
  \/ \E r \in 1..Len(term), tts \in {"1", "0"} : TerminateAfterGrace(r, tts)
  \/ \E r \in 1..Len(term) : FarewellReturns(r)
  \/ \E r \in 1..Len(term) : FarewellFails(r)
  \/ \E r \in 1..Len(term) : FarewellPauseEnds(r)
  \/ Teardown({"ok"}, TwilioRooms, Credentials, HttpOutcomes)
  \/ OnStart

ReentrySpec == Init /\ [][ReentryNext]_vars

(***************************************************************************)
(* Properties.                                                             *)
(***************************************************************************)
CallIds == 1..Len(calls)

Stored(i) == calls[i].task = "stored"
SaveFailed(i) == calls[i].task \in {"returned_none", "raised"}
Suppressed(i) == calls[i].result = DuplicateMessage
Acknowledged(i) == calls[i].result = SuccessAck

\* the step is a create_inquiry invocation
InvokeStep == Len(calls') = Len(calls) + 1

\* the step is the save task of invocation i ending with its create failed
SaveFailsStep(i) ==
  /\ i \in CallIds
  /\ calls[i].task = "pending"
  /\ calls'[i].task \in {"returned_none", "raised"}

\* the step is the save task of invocation i ending with a record returned
SaveStoresStep(i) ==
  /\ i \in CallIds
  /\ calls[i].task = "pending"
  /\ calls'[i].task = "stored"
  /\ Len(store') = Len(store) + 1

\* the invocation had no usable phone argument
NoUsablePhone(i) == ~Truthy(calls[i].phone) \/ calls[i].phone = Unknown

\* C1: with the store always succeeding, once every save task has run, exactly
\* one record is stored and every invocation but one got the duplicate message.
C1_ExactlyOneRecord ==
  ( /\ Len(calls) >= 1
    /\ \A i \in CallIds : calls[i].task \in {"stored", "no_task"} )
  => /\ Len(store) = 1
     /\ Cardinality({i \in CallIds : ~Suppressed(i)}) = 1

\* C2: inquiry_created starts false, becomes true only in the step of a save
\* task whose store create returned a record, and never goes back to false.
C2_FlagSetOnlyBySuccessfulSave ==
  /\ inquiry_created = FALSE
  /\ [][ /\ (inquiry_created => inquiry_created')
         /\ (~inquiry_created /\ inquiry_created'
               => \E i \in CallIds : SaveStoresStep(i)) ]_vars

C2_Witness ==
  /\ inquiry_created
  /\ termination_started
  /\ extract = "done"
  /\ turn.out = EndingNotice
  /\ \E i \in CallIds : Suppressed(i)

\* C3: an invocation that starts while inquiry_created is true returns the
\* one-inquiry-per-call message, spawns no save task and writes nothing.
C3_DuplicateSuppressed ==
  [][ (inquiry_created /\ InvokeStep)
        => /\ calls'[Len(calls')].result = DuplicateMessage
           /\ calls'[Len(calls')].task = "no_task"
           /\ SubSeq(calls', 1, Len(calls)) = calls
           /\ store' = store ]_vars

C3_Witness ==
  \E i \in CallIds : Suppressed(i) /\ calls[i].task = "no_task" /\ Len(store) = 1

\* C4: a save task whose store create fails stores nothing and leaves
\* inquiry_created as it was, so after failures alone the flag is false; an
\* invocation is suppressed only after an earlier invocation's record was
\* stored, and an invocation made while no record is stored returns the
\* acknowledgment and spawns a save task, which issues a new store create.
C4_FailureAllowsRetry ==
  /\ [](inquiry_created => \E i \in CallIds : Stored(i))
  /\ [](\A j \in CallIds : Suppressed(j) => \E i \in 1..(j - 1) : Stored(i))
  /\ [][ /\ (\E i \in CallIds : SaveFailsStep(i))
              => store' = store /\ inquiry_created' = inquiry_created
         /\ (InvokeStep /\ \A i \in CallIds : ~Stored(i))
              => /\ calls'[Len(calls')].result = SuccessAck
                 /\ calls'[Len(calls')].task = "pending" ]_vars

C4_Witness ==
  /\ Len(calls) = 2
  /\ SaveFailed(1)
  /\ Stored(2)
  /\ Len(store) = 1

\* C5: every invocation that returned the success acknowledgment and whose
\* save task has run has its record stored.
C5_AckMeansStored ==
  \A i \in CallIds : (Acknowledged(i) /\ calls[i].task # "pending") => Stored(i)

\* C6: the invocation returns its acknowledgment in a step that neither
\* issues nor completes the store create; the store is written only by a save
\* task, in a later step, for an invocation that has already returned.
C6_AckBeforeStoreWrite ==
  [][ /\ InvokeStep => /\ store' = store
                       /\ calls'[Len(calls')].task \in {"pending", "no_task"}
      /\ store' # store => \E i \in CallIds : Acknowledged(i) /\ SaveStoresStep(i) ]_vars

C6_Witness ==
  \E i \in CallIds : Acknowledged(i) /\ calls[i].task = "pending" /\ store = <<>>

\* C7: an invocation without phone parameter, made while the caller identity
\* is unset or the unresolved sentinel, stores a record whose phone key is
\* non-empty and is not "unknown".
C7_FallbackPhoneKey ==
  \A i \in CallIds :
    ( /\ Stored(i)
      /\ IsNone(calls[i].phone)
      /\ calls[i].caller \in {PyNone, ExtractedFailed} )
    => /\ Truthy(store[calls[i].doc].phone)
       /\ store[calls[i].doc].phone # Unknown

C7_Witness ==
  \E i \in CallIds :
    /\ Stored(i)
    /\ IsNone(calls[i].phone)
    /\ calls[i].caller = ExtractedFailed
    /\ IsCallToken(store[calls[i].doc].phone)

\* C8: the phone key of every stored record is non-empty and is never
\* "unknown", whatever the phone argument and the caller identity.
C8_PhoneKeyNeverUnknown ==
  \A k \in 1..Len(store) : Truthy(store[k].phone) /\ store[k].phone # Unknown

\* C9: an invocation without usable phone, made while the caller identity is
\* the unresolved sentinel or "unknown", stores the fallback token call_<time>.
C9_SentinelNeverStored ==
  \A i \in CallIds :
    ( /\ Stored(i)
      /\ NoUsablePhone(i)
      /\ calls[i].caller \in {ExtractedFailed, Unknown} )
    => IsCallToken(store[calls[i].doc].phone)

\* C10: an on_message invocation is never still waiting more than the
\* deadline after it was invoked.
C10_TurnWithinDeadline ==
  turn.pc = "awaiting" => turn.waited <= TurnDeadline

RunIds == 1..Len(term)

\* the step is the start of an on_message invocation
TurnBeginsStep == turn.pc = "idle" /\ turn' # turn

\* the step is the return of an on_message invocation that called the backend
TurnEndsStep == turn.pc = "awaiting" /\ turn'.pc = "idle"

\* C11: an on_message invocation that called the backend returns either the
\* backend's reply, produced no later than the deadline, or the fallback
\* selector's reply for the text of its utterance.
C11_ReplyOrFallback ==
  [][ TurnEndsStep
        => \/ turn'.out = BackendReply /\ turn.waited <= TurnDeadline
           \/ turn'.out = FallbackFor(turn.msg) /\ turn'.msg = turn.msg ]_vars

\* C12: an on_message invocation that starts while termination_started is
\* true returns the ending notice in the same step, without calling the
\* backend.
C12_EndingNoticeBypassesBackend ==
  [][ (termination_started /\ TurnBeginsStep)
        => turn'.pc = "idle" /\ turn'.out = EndingNotice ]_vars

C12_Witness ==
  /\ termination_started
  /\ turn.pc = "idle"
  /\ turn.out = EndingNotice
  /\ turn.msg = PyStr(<<"Buy", " ", "maison">>)

\* C13: once the termination entry point has been called, every on_message
\* invocation that starts returns the ending notice without calling the
\* backend, the grace delay included.
C13_EndingNoticeFromTrigger ==
  [][ (Len(term) > 0 /\ TurnBeginsStep)
        => turn'.pc = "idle" /\ turn'.out = EndingNotice ]_vars

\* Starting, Active, Terminating, Terminated as the session's fields tell them
StateRank ==
  IF termination_started
  THEN (IF current_session = "None" THEN 3 ELSE 2)
  ELSE (IF current_session = "None" THEN 0 ELSE 1)

\* C14: the state of the session never goes backward, termination_started
\* never goes back to false, and a session reference that is empty while
\* termination_started is true stays empty.
C14_StateMonotonic ==
  [][ /\ StateRank' >= StateRank
      /\ termination_started => termination_started' ]_vars

\* the runs that have attempted strategy k
Attempts(k) == {r \in RunIds : term[r].step >= k}

\* C15: whatever the number of runs of the entry point, each strategy is
\* attempted at most once in the session.
C15_StrategiesAtMostOnce ==
  \A k \in 1..LastStrategy : Cardinality(Attempts(k)) <= 1

\* C16: a run of the entry point called after an earlier run has returned
\* attempts no farewell and no strategy, and so issues no remote termination
\* call and leaves the session reference as it was.
C16_ReentryIsNoOp ==
  \A r \in 2..Len(term) :
    term[r].pc \in {"grace", "done"} /\ term[r].step = 0

\* C17: a run that reaches the strategies attempts all of them whatever
\* number of them raise, and ends with termination_started true and the
\* session reference cleared.
C17_FailuresDoNotStopTeardown ==
  /\ [](\A r \in RunIds :
          (term[r].pc = "done" /\ term[r].step > 0) => term[r].step = LastStrategy)
  /\ [][ \A r \in RunIds :
           (term[r].pc = "teardown" /\ term'[r].pc = "done")
             => /\ term'[r].step = LastStrategy
                /\ termination_started'
                /\ current_session' = "None" ]_vars

C17_Witness ==
  \E r \in RunIds :
    /\ term[r].pc = "done"
    /\ term[r].raised = LastStrategy
    /\ current_session = "None"

\* C18: a run with a strategy that never returns still ends.
C18_HangStillCompletes ==
  \A r \in 1..MaxTermRuns :
    [](r <= Len(term) /\ term[r].hung => <>(r <= Len(term) /\ term[r].pc = "done"))

\* C19: from the farewell attempt of a run, with the farewell pending or
\* disabled, to its first strategy no more than the farewell timeout passes.
C19_FarewellWithinTimeout ==
  \A r \in RunIds :
    (term[r].pc = "farewell" \/ (term[r].pc = "sleep" /\ term[r].tts = "0"))
      => term[r].waited <= FarewellTimeout

\* the Python value False
PyFalse == <<"bool", FALSE>>

\* C20: a call of _terminate_twilio_call with the account identifier or the
\* auth token missing returns False and issues no request.
C20_MissingCredentialReturnsFalse ==
  ( /\ twilio.last # NotCalled
    /\ ~Truthy(twilio.last.account_sid) \/ ~Truthy(twilio.last.auth_token) )
  => /\ twilio.last.result = PyFalse
     /\ ~twilio.last.posted

\* the Python value True
PyTrue == <<"bool", TRUE>>

\* C21: a call of _terminate_twilio_call that issues its request returns True
\* exactly when the provider answers 200, and False for any other status and
\* for a transport error.
C21_TrueExactlyOnHttp200 ==
  (twilio.last.posted /\ twilio.last.http \in {"200", "404", "raises"})
  => twilio.last.result = (IF twilio.last.http = "200" THEN PyTrue ELSE PyFalse)

(***************************************************************************)
(* The identity extraction on its own: both passes over every room of at   *)
(* most MaxParticipants participants, next to the first invocation of the  *)
(* session and its save task.                                              *)
(***************************************************************************)
MaxParticipants == 2

\* The remote participants of a room: a SIP leg whose identity embeds the
\* number, a SIP leg with the number in its attributes only, participants
\* with the number in their metadata, one whose metadata is a plain string,
\* and one with no source at all
RoomParticipants ==
  { Participant(<<"sip_", "+", "33">>, PyNone, NoMetadata),
    Participant(<<"sip_", "trunk">>, PyStr(<<"+", "34">>), NoMetadata),
    Participant(<<"user">>, PyNone, MapMetadata(PyStr(<<"+", "35">>), PyNone)),
    Participant(<<"user">>, PyNone, MapMetadata(PyNone, PyStr(<<"+", "36">>))),
    Participant(<<"user">>, PyNone, StrMetadata),
    Participant(<<"agent">>, PyNone, NoMetadata) }

ExtractRooms == SeqsUpTo(RoomParticipants, MaxParticipants)

ExtractNext ==
  \/ ExtractPhone(ExtractRooms)
  \/ /\ calls = <<>>
     /\ InvokeTool(SessionPhones, {"tool", "execute_tool"}, SessionTimes, SessionData, MaxCalls)
  \/ SaveTask(SessionTimes)

ExtractSpec == Init /\ [][ExtractNext]_vars

\* The identities a room offers, by kind of source
EmbeddedNumbers(room) ==
  { PyStr(RemoveChunk(room[i].pid, "sip_")) :
      i \in {j \in 1..Len(room) :
               /\ StartsWith(room[j].pid, "sip_")
               /\ StartsWith(RemoveChunk(room[j].pid, "sip_"), "+")} }

AttributeNumbers(room) ==
  { room[i].sip_phone : i \in {j \in 1..Len(room) : Truthy(room[j].sip_phone)} }

MetadataNumbers(room) ==
  { PyOr(room[i].metadata.phoneNumber, room[i].metadata.from) :
      i \in {j \in 1..Len(room) :
               /\ room[j].metadata.kind = "map"
               /\ Truthy(PyOr(room[j].metadata.phoneNumber, room[j].metadata.from))} }

\* The identities of the best kind of source the room offers, over all its
\* participants
BestNumbers(room) ==
  IF EmbeddedNumbers(room) # {} THEN EmbeddedNumbers(room)
  ELSE IF AttributeNumbers(room) # {} THEN AttributeNumbers(room)
  ELSE IF MetadataNumbers(room) # {} THEN MetadataNumbers(room)
  ELSE {ExtractedFailed}

\* C22: the identity the extraction leaves comes from the source of highest
\* priority that any participant of the room offers: a number embedded in a
\* sip_ identifier, else a sip.phoneNumber attribute, else phoneNumber/from
\* metadata; a source of lower priority on one participant never wins over one
\* of higher priority on another.
C22_PriorityOverAllParticipants ==
  (extract = "done" /\ LookupPhone(seen) # <<"raise">>)
  => caller_phone \in BestNumbers(seen)

\* C23: the extraction task ends with a non-empty caller identity, also when a
\* lookup raises; until it ends the identity is unset, and it waits for a
\* second lookup only after a first one that resolved nothing.
C23_ExtractionEndsNonEmpty ==
  /\ extract = "done" => Truthy(caller_phone)
  /\ extract # "done" => caller_phone = PyNone
  /\ extract = "sleeping" => LookupPhone(seen) = <<"none">>

C23_Witness ==
  /\ extract = "done"
  /\ caller_phone = ExtractedFailed
  /\ LookupPhone(seen) = <<"raise">>

(***************************************************************************)
(* The background tasks next to every handler: the first invocation of a   *)
(* session through either entry path and its save task, the extraction     *)
(* over the rooms of the phone pipeline, on_start, the turns and the       *)
(* termination runs.                                                       *)
(***************************************************************************)
TaskNext ==
  \/ /\ calls = <<>>
     /\ InvokeTool(SessionPhones, {"tool", "execute_tool"}, SessionTimes, SessionData, MaxCalls)
  \/ SaveTask(SessionTimes)
  \/ ExtractPhone(PhoneRooms)
  \/ OnStart
  \/ OnMessage(SessionMsgs)
  \/ Terminate(MaxTermRuns, SessionLegs)
  \/ Tick

TaskSpec == Init /\ [][TaskNext]_vars

\* the caller identity is a resolved value
Resolved(v) == v \notin {PyNone, PyStr(<<>>), Unknown, ExtractedFailed}

\* C24: the caller identity is written by the identity extraction task alone,
\* in the step that ends it, and a resolved identity is changed by no later
\* step: no tool invocation through either path, save task, turn or
\* termination step.
C24_OnlyExtractionWritesIdentity ==
  [][ /\ caller_phone' # caller_phone => (extract # "done" /\ extract' = "done")
      /\ Resolved(caller_phone) => caller_phone' = caller_phone ]_vars

C24_Witness ==
  /\ extract = "done"
  /\ Resolved(caller_phone)
  /\ \E i \in CallIds : calls[i].via = "execute_tool" /\ Stored(i)
  /\ termination_started
  /\ turn.out # "None"

\* the step is a background task failing: a save task whose create failed,
\* an extraction pass whose lookup raised, or on_start, whose step stands for
\* its greeting failing as well as succeeding (the except clause of
\* agent.py 279-280 only logs)
TaskFailsStep ==
  \/ \E i \in CallIds : SaveFailsStep(i)
  \/ extract # "done" /\ extract' = "done" /\ LookupPhone(seen') = <<"raise">>
  \/ start = "scheduled" /\ start' = "done"

\* C28: a failure inside a background task stays in the task: it changes the
\* result of no create_inquiry invocation and of no turn, ends no turn, and
\* does not stop the session (no termination starts, the session reference is
\* not cleared).
C28_TaskFailureContained ==
  [][ TaskFailsStep
      => /\ Len(calls') = Len(calls)
         /\ \A i \in CallIds : calls'[i].result = calls[i].result
         /\ turn'.pc = turn.pc /\ turn'.out = turn.out /\ turn'.msg = turn.msg
         /\ termination_started' = termination_started
         /\ term' = term
         /\ current_session = "session" => current_session' = "session" ]_vars

C28_Witness ==
  /\ \E i \in CallIds : Acknowledged(i) /\ calls[i].task = "raised"
  /\ extract = "done" /\ LookupPhone(seen) = <<"raise">>
  /\ turn.out = BackendReply
  /\ current_session = "session"
  /\ ~termination_started

\* C26: once termination_started is true no record is stored: neither by a
\* create_inquiry invocation made afterwards nor by a save task still pending.
C26_NoRecordAfterTermination ==
  [][ termination_started => store' = store ]_vars

\* the step is a background task running: a save task, an extraction pass or
\* on_start
TaskRunsStep ==
  \/ \E i \in CallIds : calls[i].task = "pending" /\ calls'[i].task # "pending"
  \/ extract' # extract
  \/ start' # start

\* C27: every background task is held by a handle and is cancelled when
\* termination starts, so that from then on no task that has not begun, or
\* that is suspended, runs on.
C27_TasksCancelledOnTermination ==
  [][ termination_started => ~TaskRunsStep ]_vars

\* The categories of the fallback selector in their order, each with its
\* keywords and its canned reply
Categories ==
  << [words |-> BuyWords, reply |-> BuyReply],
     [words |-> SellWords, reply |-> SellReply],
     [words |-> EstimateWords, reply |-> EstimateReply],
     [words |-> GreetingWords, reply |-> GreetingReply] >>

\* the text holds one of the words, letter case set aside
OccursIn(text, words) ==
  \E i \in 1..Len(text), w \in words : Lower(text[i]) = Lower(w)

\* the categories one of whose keywords the text holds
Hits(text) == {k \in 1..Len(Categories) : OccursIn(text, Categories[k].words)}

FirstCategoryReply(text) ==
  IF Hits(text) = {} THEN GenericReply
  ELSE Categories[CHOOSE k \in Hits(text) : \A j \in Hits(text) : k <= j].reply

\* the text of an utterance: its content, or the empty text
TextOf(content) == IF Truthy(content) THEN Chars(content) ELSE <<>>

\* C25: a turn answered by the fallback selector gets the canned reply of the
\* first category, in the order buy, sell, estimate, greeting, one of whose
\* keywords occurs in the text whatever its letter case, and the generic prompt
\* when no keyword occurs; the reply is a function of the text alone.
C25_FirstMatchingCategory ==
  (turn.pc = "idle" /\ turn.out \notin {"None", EndingNotice, BackendReply})
  => turn.out = FirstCategoryReply(TextOf(turn.msg))

C25_Witness ==
  /\ turn.pc = "idle"
  /\ turn.out = BuyReply
  /\ turn.msg = PyStr(<<"vendre", " ", "maison">>)
  /\ \E i \in CallIds : Stored(i)

\* C29: every stored record has status "new" and source "phone_call"; its
\* identity source is "extracted_from_call" exactly when the caller identity
\* of the session, as the save task finds it, is a resolved value (not empty,
\* not "unknown", not the sentinel), and "provided_by_customer" otherwise.
C29_RecordStatusAndSource ==
  /\ [](\A k \in 1..Len(store) :
          /\ store[k].status = "new"
          /\ store[k].source = "phone_call"
          /\ store[k].phone_source \in {"extracted_from_call", "provided_by_customer"})
  /\ [][ \A i \in CallIds :
           SaveStoresStep(i)
             => (store'[Len(store')].phone_source = "extracted_from_call"
                   <=> Resolved(caller_phone)) ]_vars

C29_Witness ==
  \E k \in 1..Len(store) :
    /\ store[k].phone_source = "extracted_from_call"
    /\ store[k].caller_phone = PyStr(<<"44">>)
    /\ store[k].phone = PyStr(<<"7">>)

(***************************************************************************)
(* The payload pipeline on its own: the first invocation of a session and  *)
(* its save task, over payloads whose values nest up to MaxDepth           *)
(* containers.                                                             *)
(***************************************************************************)
MaxDepth == 2

\* Values that hold no other value
Leaves ==
  { PyNone, PyStr(<<"villa">>), PyInt(3), PyBool(TRUE),
    PyDatetime("2024-05-01", "10:00"), PyObject("Decimal('1.5')") }

\* The containers of one value: a list, a tuple, a dict under a str or an int
\* key, and objects whose model_dump() or dict() returns a dict holding it
Wrap(v) ==
  { PyList(<<v>>), PyTuple(<<v, PyNone>>),
    PyDict(<<<<PyStr(<<"k">>), v>>>>), PyDict(<<<<PyInt(1), v>>>>),
    PyModel(PyDict(<<<<PyStr(<<"f">>), v>>>>)),
    PyLegacyModel(PyDict(<<<<PyStr(<<"f">>), v>>>>)) }

RECURSIVE ValuesUpTo(_)
ValuesUpTo(depth) ==
  IF depth = 0 THEN Leaves
  ELSE LET inner == ValuesUpTo(depth - 1)
       IN inner \cup UNION {Wrap(v) : v \in inner}

\* The keys of a top-level entry: a str, and the falsy int
TopKeys == {PyStr(<<"details">>), PyInt(0)}

Payloads ==
  {PyNone, PyDict(<<>>)}
    \cup {PyDict(<<<<k, v>>>>) : k \in TopKeys, v \in ValuesUpTo(MaxDepth)}

PayloadNext ==
  \/ /\ calls = <<>>
     /\ InvokeTool(SessionPhones, {"tool", "execute_tool"}, SessionTimes, Payloads, MaxCalls)
  \/ SaveTask(SessionTimes)

PayloadSpec == Init /\ [][PayloadNext]_vars

\* the value is made of primitives, mappings with string keys and sequences
RECURSIVE Clean(_)
Clean(w) ==
  CASE Kind(w) \in {"None", "str", "int", "bool"} -> TRUE
    [] Kind(w) = "dict" ->
         \A i \in 1..Len(w[2]) : Kind(w[2][i][1]) = "str" /\ Clean(w[2][i][2])
    [] Kind(w) = "list" -> \A i \in 1..Len(w[2]) : Clean(w[2][i])
    [] OTHER -> FALSE

\* w stands for v in the stored payload: primitives as they are, mappings
\* entry by entry under the string form of their keys, sequences element by
\* element, an object of a kind in dumps by the mapping it dumps, and every
\* other value by its string form (no mapping of the payloads has two keys
\* with the same string form)
RECURSIVE StandsFor(_, _, _)
StandsFor(v, w, dumps) ==
  CASE Kind(v) \in {"None", "str", "int", "bool"} -> w = v
    [] Kind(v) = "dict" ->
         /\ Kind(w) = "dict"
         /\ Len(w[2]) = Len(v[2])
         /\ \A i \in 1..Len(v[2]) :
              /\ w[2][i][1] = Str(v[2][i][1])
              /\ StandsFor(v[2][i][2], w[2][i][2], dumps)
    [] Kind(v) \in {"list", "tuple"} ->
         /\ Kind(w) = "list"
         /\ Len(w[2]) = Len(v[2])
         /\ \A i \in 1..Len(v[2]) : StandsFor(v[2][i], w[2][i], dumps)
    [] Kind(v) \in dumps -> StandsFor(v[2], w, dumps)
    [] Kind(v) = "datetime" -> w = Isoformat(v)
    [] OTHER -> Kind(w) = "str" /\ w = Str(v)

\* the stored payloads, each with the payload of its invocation
StoredPayloads ==
  { <<calls[i].data, store[calls[i].doc].inquiry_data>> : i \in {j \in CallIds : Stored(j)} }

\* every value of the stored payload stands for the value of the payload
\* under the same entry
EntriesStandFor(v, w, dumps) ==
  /\ Kind(w) = "dict"
  /\ IF ~IsTruthy(v) THEN w[2] = <<>>
     ELSE /\ Len(w[2]) = Len(v[2])
          /\ \A i \in 1..Len(v[2]) : StandsFor(v[2][i][2], w[2][i][2], dumps)

OddPayloads ==
  { PyModel(PyDict(<<<<PyStr(<<"type">>), PyStr(<<"villa">>)>>>>)),
    PyLegacyModel(PyDict(<<<<PyStr(<<"type">>), PyStr(<<"villa">>)>>>>)),
    PyList(<<PyTuple(<<PyStr(<<"type">>), PyStr(<<"villa">>)>>)>>),
    PyStr(<<"villa">>),
    PyInt(3),
    PyList(<<PyInt(3)>>),
    PyObject("Decimal('1.5')") }

\* The keys of a mapping of two entries: falsy keys, and keys with the same
\* string form
EntryKeys ==
  <<PyNone, PyStr(<<>>), PyInt(0), PyInt(1), PyStr(<<"1">>), PyStr(<<"type">>)>>

TwoEntryPayloads ==
  { PyDict(<< <<EntryKeys[ab[1]], PyStr(<<"villa">>)>>,
              <<EntryKeys[ab[2]], PyInt(3)>> >>) :
      ab \in {p \in (1..Len(EntryKeys)) \X (1..Len(EntryKeys)) : p[1] # p[2]} }

ArgumentNext ==
  \/ /\ calls = <<>>
     /\ InvokeTool(SessionPhones, {"tool", "execute_tool"}, SessionTimes,
                   OddPayloads \cup TwoEntryPayloads, MaxCalls)
  \/ SaveTask(SessionTimes)

ArgumentSpec == Init /\ [][ArgumentNext]_vars

\* C31: whatever its inquiry_data argument, an invocation that does not get
\* the duplicate message spawns its save task, and so leads to one store
\* create; a task that stores, stores a mapping.
C31_PayloadNeverRejected ==
  \A i \in CallIds :
    /\ ~Suppressed(i) => calls[i].task # "no_task"
    /\ Stored(i) => Kind(store[calls[i].doc].inquiry_data) = "dict"

\* C39: the sanitized payload of a stored record has as many entries as the
\* mapping it was made from.
C39_NoEntryLost ==
  \A i \in CallIds :
    (Stored(i) /\ Kind(calls[i].data) = "dict")
      => Len(store[calls[i].doc].inquiry_data[2]) = Len(calls[i].data[2])

(***************************************************************************)
(* The strategies with the calls they make: rooms of up to MaxParticipants *)
(* participants, calls that raise for some of them, and sessions that      *)
(* expose some of the shutdown primitives, some of which raise.            *)
(***************************************************************************)
SweepLegs ==
  { Leg(<<"sip_", "+", "33">>, PyStr(<<"CA1">>)),
    Leg(<<"sip_", "+", "34">>, PyNone),
    Leg(<<"user">>, PyStr(<<"CA2">>)) }

SweepRooms == UNION { [1..n -> SweepLegs] : n \in 0..MaxParticipants }

Primitives == {ShutdownOrder[i] : i \in 1..Len(ShutdownOrder)}

SweepStrategy(r) ==
  LET k == term[r].step + 1
  IN CASE k \in {1, 7, 8} ->
            \E outcome \in {"ok", "raise"} \ (IF k = 1 THEN {"raise"} ELSE {}),
               room \in SweepRooms :
              \E bad \in SUBSET (1..Len(room)) :
                RunStrategyWith(r, outcome, room, PyNone, PyNone, "200",
                                [NoFaults EXCEPT !.bad = bad])
       [] k = 3 ->
            \E outcome \in {"ok", "raise"}, exposed \in SUBSET Primitives :
              \E raising \in SUBSET exposed :
                RunStrategyWith(r, outcome, <<>>, PyNone, PyNone, "200",
                                [NoFaults EXCEPT !.exposed = exposed,
                                                 !.raising = raising])
       [] k = TwilioStrategy ->
            \E outcome \in StrategyOutcomes, room \in SweepRooms,
               account_sid \in {PyNone, Secret}, http \in HttpOutcomes :
              RunStrategyWith(r, outcome, room, account_sid, Secret, http, NoFaults)
       [] OTHER -> RunStrategyWith(r, "ok", <<>>, PyNone, PyNone, "200", NoFaults)

\* one run of the entry point
SweepNext ==
  \/ term = <<>> /\ TerminateBegin(MaxTermRuns)
  \/ \E r \in 1..Len(term) : TerminateAfterGrace(r, "1")
  \/ \E r \in 1..Len(term) : TerminateFarewell(r)
  \/ \E r \in 1..Len(term) : SweepStrategy(r)
  \/ OnStart

SweepSpec == Init /\ [][SweepNext]_vars

Range(f) == {f[i] : i \in DOMAIN f}

\* C33: in each per-participant strategy (individual disconnect,
\* disconnect-by-id, remove-by-id) the call is attempted for every
\* participant of the room, whichever of the calls raise.
C33_EveryParticipantAttempted ==
  sweep.k \in {1, 7, 8} => Range(sweep.called) = 1..Len(sweep.room)

\* the primitives the session exposes, in the order the claim gives
C34_Exposed ==
  SelectSeq(<<"disconnect", "stop", "end", "close", "terminate", "shutdown">>,
            LAMBDA m : m \in sweep.exposed)

\* C34: the session shutdown awaits the exposed primitives in the order
\* disconnect, stop, end, close, terminate, shutdown; every primitive
\* awaited before the last one raised, and the strategy stops short of an
\* exposed primitive only after one that returned.
C34_PrimitivesInOrderUntilSuccess ==
  sweep.k = 3 =>
    LET p == sweep.called
    IN /\ Len(p) <= Len(C34_Exposed)
       /\ \A i \in 1..Len(p) : p[i] = C34_Exposed[i]
       /\ \A i \in 1..(Len(p) - 1) : p[i] \in sweep.raising
       /\ Len(p) < Len(C34_Exposed) => (Len(p) > 0 /\ p[Len(p)] \notin sweep.raising)

C34_Witness ==
  /\ sweep.k = 3
  /\ Len(sweep.called) = 2
  /\ sweep.called[1] \in sweep.raising
  /\ sweep.called[2] \notin sweep.raising
  /\ Len(C34_Exposed) > 2

\* the participants the claim names: pid starts with sip_ and a provider
\* call id is carried
C35_SipLegsWithCallId ==
  {i \in 1..Len(sweep.room) :
     /\ sweep.room[i].pid # <<>> /\ sweep.room[i].pid[1] = "sip_"
     /\ Truthy(sweep.room[i].call_sid)}

\* C35: when the remote termination strategy returns, the termination call
\* was made once for each sip_ participant that carries a provider call id
\* and for no other participant; a call whose request raises does not make
\* the strategy raise.
C35_OneRemoteCallPerSipLeg ==
  /\ []((sweep.k = TwilioStrategy /\ ~(twilio.last.posted /\ twilio.last.http = "hangs"))
          => /\ Range(sweep.called) = C35_SipLegsWithCallId
             /\ Len(sweep.called) = Cardinality(C35_SipLegsWithCallId))
  /\ [][ \A r \in RunIds :
           (/\ term[r].step + 1 = TwilioStrategy
            /\ term'[r].step = TwilioStrategy
            /\ sweep'.called # <<>>
            /\ twilio'.last.posted
            /\ twilio'.last.http = "raises")
             => /\ term'[r].raised = term[r].raised
                /\ ~term'[r].hung ]_vars

C35_Witness ==
  /\ sweep.k = TwilioStrategy
  /\ Len(sweep.called) = 2
  /\ twilio.last.posted
  /\ twilio.last.http = "raises"

\* the order the claim gives
C32_Claimed ==
  <<"participant_disconnect", "room_close", "session_shutdown", "agent_stop",
    "force_disconnect_sip", "disconnect_by_id", "remove_by_id",
    "transport_close", "remote_termination", "job_context_disconnect">>

C32_Rank(name) == CHOOSE i \in 1..Len(C32_Claimed) : C32_Claimed[i] = name

\* C32: a run executes its strategies one after the other, the next one
\* only when the previous one returned or raised, in the order
\* per-participant disconnect, room close, session shutdown, agent stop,
\* force-disconnect of sip_ legs, disconnect-by-id, remove-by-id, transport
\* close, remote call termination, job-context disconnect; the run ends
\* with the job-context disconnect.
C32_StrategiesInFixedOrder ==
  [][ \A r \in RunIds :
        term'[r].step # term[r].step
          => /\ term[r].pc = "teardown" /\ ~term[r].hung
             /\ term'[r].step = term[r].step + 1
             /\ sweep'.k = term'[r].step
             /\ \A j \in 1..term[r].step :
                  (StrategyOrder[j] \in Range(C32_Claimed)
                     /\ StrategyOrder[sweep'.k] \in Range(C32_Claimed))
                    => C32_Rank(StrategyOrder[j]) < C32_Rank(StrategyOrder[sweep'.k])
             /\ StrategyOrder[sweep'.k] \in Range(C32_Claimed)
                  => \A name \in Range(C32_Claimed) :
                       C32_Rank(name) < C32_Rank(StrategyOrder[sweep'.k])
                         => \E j \in 1..term[r].step : StrategyOrder[j] = name
             /\ term'[r].pc = "done"
                  => StrategyOrder[sweep'.k] = "job_context_disconnect" ]_vars

C32_Witness ==
  /\ sweep.k = LastStrategy
  /\ \E r \in RunIds :
       /\ term[r].pc = "done"
       /\ term[r].step = LastStrategy
       /\ term[r].raised \in 1..(LastStrategy - 1)

\* C38: a run of the entry point that found no session recorded, on_start
\* not having run yet, still attempts the job-context strategies, up to the
\* job-context disconnect.
C38_TeardownWithoutSession ==
  \A r \in RunIds :
    (start = "scheduled" /\ term[r].pc = "done") => term[r].step = LastStrategy

\* C36: a run executes a strategy only after its grace delay of 5 seconds
\* has elapsed and its farewell attempt has ended: it leaves the grace
\* sleep only when 5 seconds have passed, reaches the farewell only from
\* there, and reaches the strategies only from a farewell that failed or
\* timed out or from the pause that follows a farewell that completed or
\* was skipped.
C36_NoStrategyBeforeGraceAndFarewell ==
  [][ \A r \in RunIds :
        /\ (term[r].pc = "grace" /\ term'[r].pc # "grace")
             => term[r].waited >= 5
        /\ (term'[r].pc \in {"farewell", "sleep"} /\ term[r].pc # term'[r].pc)
             => term[r].pc \in {"grace", "farewell"}
        /\ (term'[r].pc = "farewell" /\ term[r].pc # "farewell")
             => term[r].pc = "grace"
        /\ (term'[r].pc = "teardown" /\ term[r].pc # "teardown")
             => term[r].pc \in {"farewell", "sleep"} /\ term'[r].step = 0
        /\ term'[r].step # term[r].step => term[r].pc = "teardown" ]_vars

C36_Witness ==
  \E r \in RunIds :
    /\ term[r].pc = "teardown"
    /\ term[r].step = 1
    /\ term[r].tts = "1"

(***************************************************************************)
(* The driver called as the save task calls it (agent.py 155-158), with    *)
(* index creations and inserts that fail, and the getter of the combined   *)
(* instruction text called again after the first agent was built.          *)
(***************************************************************************)
DriverCallers == {PyNone, PyStr(<<"+", "33">>)}

\* no phone, a blank one, the placeholder, a number
DriverPhones == {PyNone, PyStr(<<" ">>), PyStr(<<"unknown">>), PyStr(<<"7">>)}

DriverCall(phone, caller, data, t, index_fails, fault) ==
  /\ db.n < MaxCalls
  /\ LET out == DriverCreateInquiry(GetDbDriver(db), store, phone, caller, data, t,
                                    index_fails, fault)
     IN /\ db' = [out.db EXCEPT !.n = @ + 1, !.last = out.result, !.id = out.id]
        /\ store' = out.store
  /\ UNCHANGED <<inquiry_created, caller_phone, termination_started, current_session,
                 calls, turn, extract, seen, start, term, twilio, sweep>>

InstructionsAsked ==
  /\ db.asked <= MaxCalls
  /\ db' = GetCombinedInstructions(db)
  /\ UNCHANGED <<inquiry_created, caller_phone, termination_started, current_session,
                 calls, store, turn, extract, seen, start, term, twilio, sweep>>

DriverNext ==
  \/ \E phone \in DriverPhones, caller \in DriverCallers, data \in {PyNone} \cup SessionData,
        t \in SessionTimes, index_fails \in BOOLEAN, fault \in DriverFaults :
       DriverCall(phone, caller, data, t, index_fails, fault)
  \/ InstructionsAsked

DriverSpec == Init /\ [][DriverNext]_vars

\* C37: a call of the driver's create_inquiry does not raise: it returns the
\* stored record with the id the store gave it, the collection one record
\* longer, or it returns None, the collection as it was.
C37_DriverNeverRaises ==
  [][ db'.n # db.n
        => /\ db'.last \in {"record", "None"}
           /\ db'.last = "record"
                => /\ Len(store') = Len(store) + 1
                   /\ SubSeq(store', 1, Len(store)) = store
                   /\ store'[Len(store')].id = db'.id
                   /\ \A j \in 1..Len(store) : store[j].id # db'.id
           /\ db'.last = "None" => store' = store ]_vars

C37_Witness ==
  /\ db.n = 2
  /\ db.last = "None"
  /\ Len(store) = 1

\* C40: the driver object, the combined instruction text and the index
\* creation are each made at most once, the index creation also when it
\* raised.
C40_LazyObjectsOnce ==
  /\ db.built = (IF db.driver THEN 1 ELSE 0)
  /\ db.combined = 1
  /\ db.index_attempts = (IF db.indexes_created THEN 1 ELSE 0)
  /\ (db.n > 0 \/ store # <<>>) => db.driver /\ db.indexes_created

C40_Witness ==
  /\ db.n = 2
  /\ db.index_failed
  /\ db.index_attempts = 1
  /\ db.built = 1
  /\ db.asked > 1
  /\ db.combined = 1

====
